---- MODULE Spec2Model ----
(***************************************************************************)
(* A model of the blood-pressure bot: the two Gemini analysis functions    *)
(* (gemini_service.py), the Google Sheets relay (gsheet_service.py) and    *)
(* the Telegram handlers (telegram_handlers.py, registered by app.py).     *)
(*                                                                         *)
(* Python strings are sequences of tokens: a token is a run of characters  *)
(* the code never splits (a fence marker, the word json, a whitespace      *)
(* character, the text of one JSON value, a literal of the source).        *)
(* Python dicts are functions from a finite set of keys to values.         *)
(***************************************************************************)
EXTENDS Integers, Sequences, FiniteSets, TLC

VARIABLES
    pc,              \* position of the running handler or call
    msg,             \* the inbound envelope: [kind, sender]
    cfg,             \* config.py: [auth |-> AUTHORIZED_USER_ID, url |-> APP_SCRIPT_URL]
    today,           \* datetime.now().strftime('%Y-%m-%d')
    dirExists,       \* os.path.exists(DOWNLOAD_DIR)
    files,           \* the files in DOWNLOAD_DIR
    resp,            \* what the provider does for this call
    extracted_data,  \* the dict returned by the analyze function
    reply_message,   \* the reply under construction
    replies,         \* the replies sent to the sender, in order
    log,             \* the external calls made, in order
    posted,          \* the JSON bodies POSTed to the webhook, in order
    http,            \* what the webhook does with a POST
    sent,            \* the value send_to_gsheet returned
    escaped,         \* an exception left the handler or the called function
    env,             \* the environment variables os.getenv reads at startup
    proc,            \* the process: its status, exit code, logging, handlers
    other            \* the local state of a second handler invocation, suspended

vars == <<pc, msg, cfg, today, dirExists, files, resp, extracted_data,
          reply_message, replies, log, posted, http, sent, escaped, env, proc, other>>

----------------------------------------------------------------------------
(* Bounds *)

\* longest completion text (in tokens) given to the analyze functions alone
MaxLen == 5

\* longest value (in characters) of the environment variable AUTHORIZED_USER_ID
MaxIdLen == 3

----------------------------------------------------------------------------
(* Strings *)

\* the three backquotes of a markdown fence
Fence == "<fence>"
JsonTag == "json"
WS == "\n"
\* the text of the one JSON value, or of the prose, the completion carries
BodyTok == "<body>"
\* what is left of a token cut in the middle by a slice
Partial == "<partial>"

JsonFenceLen == 7
FenceLen == 3

CharLen(tok) ==
    IF tok = Fence THEN 3
    ELSE IF tok = JsonTag THEN 4
    ELSE IF tok = WS THEN 1
    ELSE 2

StartsWith(s, p) == Len(s) >= Len(p) /\ SubSeq(s, 1, Len(p)) = p
EndsWith(s, p) == Len(s) >= Len(p) /\ SubSeq(s, Len(s) - Len(p) + 1, Len(s)) = p

RECURSIVE DropChars(_, _)
\* s[n:]
DropChars(s, n) ==
    IF n = 0 \/ s = <<>> THEN s
    ELSE IF CharLen(Head(s)) <= n THEN DropChars(Tail(s), n - CharLen(Head(s)))
    ELSE <<Partial>> \o Tail(s)

RECURSIVE DropLastChars(_, _)
\* s[:-n], n > 0
DropLastChars(s, n) ==
    IF n = 0 \/ s = <<>> THEN s
    ELSE IF CharLen(s[Len(s)]) <= n
         THEN DropLastChars(SubSeq(s, 1, Len(s) - 1), n - CharLen(s[Len(s)]))
    ELSE SubSeq(s, 1, Len(s) - 1) \o <<Partial>>

RECURSIVE LStrip(_)
LStrip(s) == IF s # <<>> /\ Head(s) = WS THEN LStrip(Tail(s)) ELSE s

RECURSIVE RStrip(_)
RStrip(s) == IF s # <<>> /\ s[Len(s)] = WS THEN RStrip(SubSeq(s, 1, Len(s) - 1)) ELSE s

\* str.strip()
Strip(s) == RStrip(LStrip(s))

\* s contains t as a substring
Contains(s, t) ==
    \E i \in 1..(Len(s) - Len(t) + 1) : SubSeq(s, i, i + Len(t) - 1) = t

----------------------------------------------------------------------------
(* Python values and dicts *)

\* None; every other value of the model is a string (a sequence of tokens)
\* or, under the key _token_count, a number
PyNone == <<"<None>">>

Truthy(v) == v # <<>> /\ v # PyNone

\* str(v), as an f-string renders a value
Str(v) == IF v = PyNone THEN <<"None">> ELSE v

EmptyDict == <<>>

DictSet(d, k, v) == [x \in (DOMAIN d) \cup {k} |-> IF x = k THEN v ELSE d[x]]
DictGet(d, k, default) == IF k \in DOMAIN d THEN d[k] ELSE default
SetDefault(d, k, v) == IF k \in DOMAIN d THEN d ELSE DictSet(d, k, v)

----------------------------------------------------------------------------
(* json.loads *)

JsonKinds == {"object", "array", "number", "string", "true", "null"}

\* json.loads(s) where the token BodyTok stands for the text of body:
\* whitespace around one JSON value is accepted, anything else is a
\* JSONDecodeError whose message is err
JsonLoads(s, body) ==
    LET t == Strip(s) IN
    IF t = <<>> \/ Head(t) # BodyTok \/ body.kind \notin JsonKinds
    THEN [ok |-> FALSE, err |-> <<"Expecting value">>, val |-> EmptyDict]
    ELSE IF Len(t) > 1
    THEN [ok |-> FALSE, err |-> <<"Extra data">>, val |-> EmptyDict]
    ELSE [ok |-> TRUE, err |-> <<>>, val |-> body.val]

----------------------------------------------------------------------------
(* gemini_service.py *)

\* the markdown-fence handling of analyze_tensimeter_image
StripFencesImage(response_text) ==
    LET a == IF StartsWith(response_text, <<Fence, JsonTag>>)
             THEN DropChars(response_text, JsonFenceLen)
             ELSE response_text
    IN IF EndsWith(a, <<Fence>>) THEN DropLastChars(a, FenceLen) ELSE a

\* the markdown-fence handling of analyze_text_with_gemini
StripFencesText(response_text) ==
    LET a == IF StartsWith(response_text, <<Fence, JsonTag>>)
             THEN DropChars(response_text, JsonFenceLen)
             ELSE IF StartsWith(response_text, <<Fence>>)
             THEN DropChars(response_text, FenceLen)
             ELSE response_text
    IN IF EndsWith(a, <<Fence>>) THEN DropLastChars(a, FenceLen) ELSE a

\* what a call returns: a dict, or an exception that leaves the function;
\* calls are the provider calls it made
Returned(d, calls) == [raised |-> FALSE, data |-> d, calls |-> calls]
Raised(calls) == [raised |-> TRUE, data |-> EmptyDict, calls |-> calls]

\* an empty dict in place of the error record
ErrorDictEmpty(e) == EmptyDict

ErrorDict(e) == [error |-> e]

\* the block reason alone, whatever the message
BlockTextReasonOnly(r) == Str(r.block_reason)

\* response.prompt_feedback.block_reason_message or response.prompt_feedback.block_reason
BlockText(r) == IF Truthy(r.block_msg) THEN Str(r.block_msg) ELSE Str(r.block_reason)

\* the inner try with every missing field of the text prompt filled in
ParseCompletionFillsFields(r, stripped, calls, onTypeError) ==
    LET p == JsonLoads(stripped, r.body)
        keys == {"systolic", "diastolic", "heart_rate", "lingkar_perut", "berat_badan",
                 "date", "_token_count"}
    IN
    IF ~p.ok THEN Returned([raw_text |-> stripped, error_detail |-> p.err], calls)
    ELSE IF r.body.kind # "object" THEN onTypeError
    ELSE Returned([k \in DOMAIN p.val \cup keys |->
                      IF k = "_token_count" THEN r.tokens
                      ELSE IF k \in DOMAIN p.val THEN p.val[k]
                      ELSE <<"Not visible">>], calls)

\* lines 45-59 / 100-117: the inner try of both functions, given the fence handling
ParseCompletion(r, stripped, calls, onTypeError) ==
    LET p == JsonLoads(stripped, r.body) IN
    IF ~p.ok THEN Returned([raw_text |-> stripped, error_detail |-> p.err], calls)
    ELSE IF r.body.kind # "object" THEN onTypeError
    ELSE Returned(DictSet(p.val, "_token_count", r.tokens), calls)

\* lines 64-69: except Exception of analyze_tensimeter_image
ExceptImage(r, haveResponse, e, calls) ==
    IF haveResponse /\ r.feedback = "none"
    THEN Raised(calls)  \* None.block_reason: AttributeError inside the handler
    ELSE Returned(ErrorDict(e), calls)

\* lines 119-121: except Exception of analyze_text_with_gemini
ExceptText(e, calls) == Returned(ErrorDict(e), calls)

\* lines 31-38 / 87-94: the check for safety blocks, when response.parts is empty
NoParts(r, calls, onAttrError) ==
    IF r.feedback = "noattr" THEN onAttrError
    ELSE IF r.feedback = "set" /\ Truthy(r.block_reason)
    THEN Returned(ErrorDict(<<"Request blocked: ">> \o BlockText(r)), calls)
    ELSE Returned(ErrorDict(<<"No content parts in response.">>), calls)

ItemAssignError == <<"object does not support item assignment">>
AttrError == <<"object has no attribute prompt_feedback">>

analyze_tensimeter_image(image_path, r) ==
    LET c1 == <<"count_tokens">>
        c2 == <<"count_tokens", "generate_content">>
    IN
    IF r.image = "missing"
    THEN Returned(ErrorDict(<<"Image file not found: ">> \o image_path), <<>>)
    ELSE IF r.image = "bad" THEN ExceptImage(r, FALSE, <<"cannot identify image file">>, <<>>)
    ELSE IF r.countFault THEN ExceptImage(r, FALSE, <<"count_tokens failed">>, c1)
    ELSE IF r.genFault THEN ExceptImage(r, FALSE, <<"generate_content failed">>, c2)
    ELSE IF ~r.parts THEN NoParts(r, c2, ExceptImage(r, TRUE, AttrError, c2))
    ELSE IF r.textFault THEN ExceptImage(r, TRUE, <<"response.text failed">>, c2)
    ELSE ParseCompletion(r, StripFencesImage(Strip(r.text)), c2,
                         ExceptImage(r, TRUE, ItemAssignError, c2))

\* the text function asking for the completion before counting the tokens
analyze_text_generate_first(r) ==
    LET c1 == <<"generate_content">>
        c2 == <<"generate_content", "count_tokens">>
    IN
    IF r.genFault THEN ExceptText(<<"generate_content failed">>, c1)
    ELSE IF r.countFault THEN ExceptText(<<"count_tokens failed">>, c2)
    ELSE IF ~r.parts THEN NoParts(r, c2, ExceptText(AttrError, c2))
    ELSE IF r.textFault THEN ExceptText(<<"response.text failed">>, c2)
    ELSE ParseCompletion(r, StripFencesText(Strip(r.text)), c2,
                         ExceptText(ItemAssignError, c2))

analyze_text_with_gemini(r) ==
    LET c1 == <<"count_tokens">>
        c2 == <<"count_tokens", "generate_content">>
    IN
    IF r.countFault THEN ExceptText(<<"count_tokens failed">>, c1)
    ELSE IF r.genFault THEN ExceptText(<<"generate_content failed">>, c2)
    ELSE IF ~r.parts THEN NoParts(r, c2, ExceptText(AttrError, c2))
    ELSE IF r.textFault THEN ExceptText(<<"response.text failed">>, c2)
    ELSE ParseCompletion(r, StripFencesText(Strip(r.text)), c2,
                         ExceptText(ItemAssignError, c2))

----------------------------------------------------------------------------
(* What the provider may return *)

\* prompts.py: the keys the image prompt and the text prompt ask for
ImageFields == {"systolic", "diastolic", "heart_rate", "date"}
TextFields == ImageFields \cup {"lingkar_perut", "berat_badan"}

\* a key that the JSON object does not carry
Absent == <<"<absent>">>
NotVisible == <<"Not visible">>

MkObject(f) == [k \in {x \in DOMAIN f : f[x] # Absent} |-> f[k]]

\* the JSON objects of the handler runs: each of the four fields of the
\* prompts absent or with one of its values, and objects that carry a key
\* named error or raw_text
Objects ==
    { MkObject([systolic |-> s, diastolic |-> d, heart_rate |-> h, date |-> dt]) :
        s \in {Absent, <<"120">>}, d \in {Absent, <<"80">>}, h \in {Absent, <<"75">>},
        dt \in {Absent, NotVisible, <<>>, PyNone, <<"2024-07-28">>} }
    \cup
    { MkObject([systolic |-> s, date |-> dt, error |-> e, raw_text |-> rt]) :
        s \in {Absent, <<"120">>, PyNone}, dt \in {Absent, <<"2024-07-28">>},
        e \in {Absent, <<"E11">>}, rt \in {Absent, <<"blurry">>} }

\* the JSON objects of the direct calls
SampleObjects ==
    { EmptyDict,
      [systolic |-> <<"120">>, diastolic |-> <<"80">>, heart_rate |-> <<"75">>,
       date |-> NotVisible],
      [berat_badan |-> <<"60">>, error |-> <<"E11">>] }

ObjectBody(d) == [kind |-> "object", val |-> d]
\* a JSON value that is not an object: json.loads returns a list, a number,
\* a str, a bool or None
OtherBody(k) == [kind |-> k, val |-> EmptyDict]
\* text that is no JSON value ("I cannot read this image.")
ProseBody == [kind |-> "prose", val |-> EmptyDict]

NonObjectBodies == {OtherBody(k) : k \in JsonKinds \ {"object"}}

Tokens == {Fence, JsonTag, WS, BodyTok}
Texts(n) == UNION {[1..k -> Tokens] : k \in 0..n}

TokenCounts == {0, 258}

NormalResponse ==
    [image |-> "ok", countFault |-> FALSE, genFault |-> FALSE, tokens |-> 0,
     parts |-> TRUE, feedback |-> "set", block_reason |-> <<>>, block_msg |-> <<>>,
     textFault |-> FALSE, text |-> <<>>, body |-> ProseBody]

\* response.prompt_feedback: no such attribute, None, or a message with an
\* optional block_reason and block_reason_message
Feedbacks ==
    { [feedback |-> "noattr", block_reason |-> <<>>, block_msg |-> <<>>],
      [feedback |-> "none", block_reason |-> <<>>, block_msg |-> <<>>],
      [feedback |-> "set", block_reason |-> <<>>, block_msg |-> <<>>],
      [feedback |-> "set", block_reason |-> <<"SAFETY">>, block_msg |-> <<>>],
      [feedback |-> "set", block_reason |-> <<"OTHER">>, block_msg |-> <<>>],
      [feedback |-> "set", block_reason |-> <<"SAFETY">>,
       block_msg |-> <<"The prompt was blocked.">>] }

WithFeedback(r, fb) ==
    [r EXCEPT !.feedback = fb.feedback, !.block_reason = fb.block_reason,
              !.block_msg = fb.block_msg]

\* the responses with a completion text: parts, and response.text readable
Completions(texts, bodies) ==
    { [NormalResponse EXCEPT !.tokens = n, !.text = t, !.body = b, !.feedback = f] :
        n \in TokenCounts, t \in texts, b \in bodies, f \in {"set", "none"} }

\* the responses without one: a fault of count_tokens or generate_content,
\* no parts, or a fault reading response.text
Failures ==
    { [NormalResponse EXCEPT !.countFault = TRUE],
      [NormalResponse EXCEPT !.genFault = TRUE] }
    \cup { WithFeedback([NormalResponse EXCEPT !.parts = FALSE, !.tokens = n], fb) :
             n \in TokenCounts, fb \in Feedbacks }
    \cup { WithFeedback([NormalResponse EXCEPT !.textFault = TRUE], fb) : fb \in Feedbacks }

\* responses that carry content parts together with a block reason: the
\* functions look at prompt_feedback only when response.parts is empty
FlaggedCompletions ==
    { WithFeedback(r, fb) :
        r \in Completions({<<BodyTok>>}, {ObjectBody(EmptyDict), ProseBody}),
        fb \in {x \in Feedbacks : Truthy(x.block_reason)} }

\* for Image.open the file is there ("ok"), is missing, or is no image ("bad")
DirectResponses ==
    LET rs == Completions(Texts(MaxLen),
                          {ObjectBody(d) : d \in SampleObjects}
                              \cup NonObjectBodies \cup {ProseBody})
              \cup FlaggedCompletions
              \cup Failures
    IN rs \cup { [r EXCEPT !.image = i] : r \in Failures, i \in {"missing", "bad"} }

\* the completion texts a handler run is given: the value bare, in a
\* JSON-tagged fence, in a generic fence, followed by more text, and no text
HandlerTexts ==
    { <<BodyTok>>,
      <<Fence, JsonTag, WS, BodyTok, WS, Fence>>,
      <<Fence, WS, BodyTok, WS, Fence>>,
      <<BodyTok, WS, BodyTok>>,
      <<>> }

HandlerResponses ==
    { [r EXCEPT !.feedback = "set"] :
        r \in Completions(HandlerTexts, {ObjectBody(d) : d \in Objects}
                                            \cup {OtherBody("array"), ProseBody}) }
    \cup Failures

HasCompletion(r) ==
    r.image = "ok" /\ ~r.countFault /\ ~r.genFault /\ r.parts /\ ~r.textFault

----------------------------------------------------------------------------
(* Direct calls of the two analyze functions *)

NoMsg == [kind |-> "none", sender |-> 0]
NoCfg == [auth |-> 0, url |-> <<>>]
ImagePath == <<"downloaded_gemini/gemini_AQAD_20240728_101500.jpg">>

NoHttp == [exc |-> FALSE, status |-> 0]

\* no second invocation
NoOther ==
    [pc |-> "none", msg |-> NoMsg, resp |-> NormalResponse, extracted_data |-> EmptyDict,
     reply_message |-> <<>>, replies |-> <<>>, log |-> <<>>, posted |-> <<>>,
     http |-> NoHttp, sent |-> "not called", escaped |-> FALSE]

\* the environment and the process, for the runs that start after startup
NoEnv == [key |-> <<>>, token |-> <<>>, uid |-> <<>>, url |-> <<>>]
NoProc == [status |-> "running", code |-> 0, logging |-> TRUE, handlers |-> {},
           cause |-> "none"]

Idle ==
    /\ msg = NoMsg
    /\ resp = NormalResponse
    /\ extracted_data = EmptyDict
    /\ reply_message = <<>>
    /\ replies = <<>>
    /\ log = <<>>
    /\ posted = <<>>
    /\ http = NoHttp
    /\ sent = "not called"
    /\ escaped = FALSE

InitDirect ==
    /\ pc = "call"
    /\ cfg = NoCfg
    /\ today = <<"2024-07-29">>
    /\ dirExists = TRUE
    /\ files = {}
    /\ env = NoEnv
    /\ proc = NoProc
    /\ other = NoOther
    /\ Idle

CallReturns(r, o, to) ==
    /\ pc' = to
    /\ resp' = r
    /\ extracted_data' = o.data
    /\ escaped' = o.raised
    /\ log' = log \o o.calls
    /\ UNCHANGED <<other, env, proc, msg, cfg, today, dirExists, files, reply_message, replies, posted,
                   http, sent>>

CallImage ==
    /\ pc = "call"
    /\ \E r \in DirectResponses :
          CallReturns(r, analyze_tensimeter_image(ImagePath, r), "image_returned")

CallText ==
    /\ pc = "call"
    /\ \E r \in {x \in DirectResponses : x.image = "ok"} :
          CallReturns(r, analyze_text_with_gemini(r), "text_returned")

----------------------------------------------------------------------------
(* gsheet_service.py *)

\* what requests.post may do: raise a RequestException, or return a response
HttpOutcomes ==
    {[exc |-> TRUE, status |-> 0]}
    \cup {[exc |-> FALSE, status |-> c] :
            c \in {100, 199, 200, 201, 204, 299, 300, 304, 399, 400, 404, 499, 500, 599}}

\* raise_for_status raising for server errors alone
RaisesForStatusServerOnly(status) == 500 <= status /\ status < 600

\* response.raise_for_status() raises an HTTPError
RaisesForStatus(status) == 400 <= status /\ status < 600

\* send_to_gsheet posting a second time after a failed request
send_to_gsheet_retrying(data_json, webhook_url, h) ==
    IF ~Truthy(webhook_url) THEN [ret |-> FALSE, posts |-> <<>>]
    ELSE IF data_json.kind # "object" THEN [ret |-> FALSE, posts |-> <<>>]
    ELSE IF h.exc \/ (400 <= h.status /\ h.status < 600)
    THEN [ret |-> FALSE, posts |-> <<data_json.val, data_json.val>>]
    ELSE [ret |-> TRUE, posts |-> <<data_json.val>>]

\* send_to_gsheet(data_json, webhook_url): the value returned and the bodies
\* POSTed; data_json is a JSON value, h is what the webhook does
send_to_gsheet(data_json, webhook_url, h) ==
    IF ~Truthy(webhook_url) THEN [ret |-> FALSE, posts |-> <<>>]
    ELSE IF data_json.kind # "object" THEN [ret |-> FALSE, posts |-> <<>>]
    ELSE IF h.exc \/ RaisesForStatus(h.status)
    THEN [ret |-> FALSE, posts |-> <<data_json.val>>]
    ELSE [ret |-> TRUE, posts |-> <<data_json.val>>]

\* os.getenv("APP_SCRIPT_URL"): unset, empty, or a URL
Urls == {PyNone, <<>>, <<"https://script.google.com/macros/s/AKfy/exec">>}

CallSend ==
    /\ pc = "call"
    /\ \E u \in Urls, h \in HttpOutcomes,
          d \in {ObjectBody(x) : x \in SampleObjects} \cup {OtherBody("array")} :
          LET o == send_to_gsheet(d, u, h) IN
          /\ cfg' = [cfg EXCEPT !.url = u]
          /\ http' = h
          /\ sent' = IF o.ret THEN "True" ELSE "False"
          /\ posted' = posted \o o.posts
          /\ extracted_data' = d.val
          /\ resp' = [resp EXCEPT !.body = d]
          /\ log' = log \o (IF o.posts # <<>> THEN <<"requests.post">> ELSE <<>>)
    /\ pc' = "send_returned"
    /\ UNCHANGED <<other, env, proc, msg, today, dirExists, files, reply_message, replies, escaped>>

----------------------------------------------------------------------------
(* telegram_handlers.py: the texts of the replies *)

Welcome == <<"Hi ", "<mention>", "! Send me an image of a TensiOne blood pressure monitor, and I'll try to read it using Gemini.">>
Rejection == <<"Maaf, Anda tidak berwenang untuk menggunakan fitur ini.">>
AckPhoto == <<"Image received! Processing with Gemini... ">>
AckText == <<"Text message received! Analyzing with Gemini... ">>
HeaderPhoto == <<"--- Extracted Data (Gemini) ---", "\n">>
HeaderText == <<"--- Extracted Data from Text (Gemini) ---", "\n">>
NoDataPhoto == <<"No data was extracted by Gemini or an unknown error occurred.">>
NoDataText == <<"No data was extracted from text by Gemini or an unknown error occurred.">>
FailurePhoto == <<"An unexpected error occurred while processing your image with Gemini: ", "<exception>">>
FailureText == <<"An unexpected error occurred while processing your text message with Gemini: ", "<exception>">>
SavedLine == <<"\n", "Data also saved to Google Sheets.">>
NotSavedLine == <<"\n", "Failed to save data to Google Sheets.">>
NotConfiguredLine == <<"\n", "Google Sheets URL not configured; data not saved to GSheet.">>

\* the line with the default in place of the count
TokenLineAlwaysNA(d) == <<"\n", "Estimated input tokens: ", "N/A">>

\* f"\n Estimated input tokens: {token_count_for_reply}"
TokenLine(d) ==
    <<"\n", "Estimated input tokens: ",
      IF "_token_count" \in DOMAIN d THEN ToString(d["_token_count"]) ELSE "N/A">>

\* the branch on "error": lines 56-62 and 130-136
ErrorLines(d) ==
    <<"Error: ">> \o Str(d["error"]) \o <<"\n">>
    \o (IF "error_detail" \in DOMAIN d
        THEN <<"Detail: ">> \o Str(d["error_detail"]) \o <<"\n">> ELSE <<>>)
    \o (IF "raw_text" \in DOMAIN d
        THEN <<"Raw text from Gemini: ">> \o Str(d["raw_text"]) \o <<"\n">> ELSE <<>>)

\* the branch on "raw_text": lines 63-66 and 137-140
RawLines(d) ==
    <<"Could not parse JSON from Gemini. Raw output:", "\n">> \o d["raw_text"]

\* the chain without its test for "error"
BranchIgnoresError(d) ==
    IF d # EmptyDict /\ "raw_text" \in DOMAIN d THEN "raw_text"
    ELSE IF d # EmptyDict THEN "structured"
    ELSE "no_data"

\* which branch of the if / elif chain a returned dict takes
Branch(d) ==
    IF d # EmptyDict /\ "error" \in DOMAIN d THEN "error"
    ELSE IF d # EmptyDict /\ "raw_text" \in DOMAIN d THEN "raw_text"
    ELSE IF d # EmptyDict THEN "structured"
    ELSE "no_data"

----------------------------------------------------------------------------
(* telegram_handlers.py: enrichment *)

\* the date step of handle_photo without its test for the sentinel
RewritesDatePhotoAbsentOnly(d) == "date" \notin DOMAIN d

\* lines 71-77 of handle_photo: whether the date is rewritten
RewritesDatePhoto(d) ==
    DictGet(d, "date", NotVisible) = NotVisible \/ "date" \notin DOMAIN d

\* the date step of handle_text_message without its test for an empty date
RewritesDateTextSentinelOnly(d) ==
    DictGet(d, "date", NotVisible) = NotVisible \/ "date" \notin DOMAIN d

\* lines 147-152 of handle_text_message: whether the date is rewritten
RewritesDateText(d) ==
    \/ DictGet(d, "date", NotVisible) = NotVisible
    \/ ~Truthy(DictGet(d, "date", NotVisible))
    \/ "date" \notin DOMAIN d

\* the date step with a missing date filled by the sentinel after the test
\* for the sentinel
EnrichPhotoDefaultLate(d, now) ==
    IF "date" \notin DOMAIN d THEN DictSet(d, "date", NotVisible)
    ELSE IF d["date"] = NotVisible THEN DictSet(d, "date", now)
    ELSE d

\* extracted_data after the date step of handle_photo
EnrichPhoto(d, now) == IF RewritesDatePhoto(d) THEN DictSet(d, "date", now) ELSE d

\* extracted_data after the date step of handle_text_message
EnrichText(d, now) == IF RewritesDateText(d) THEN DictSet(d, "date", now) ELSE d

\* date_val, as the reply shows it
DateValPhoto(d, now) == IF RewritesDatePhoto(d) THEN now ELSE DictGet(d, "date", NotVisible)
DateValText(d, now) == IF RewritesDateText(d) THEN now ELSE DictGet(d, "date", NotVisible)

\* the three keys assigned rather than defaulted
RelayDefaultsOverwrite(d) ==
    DictSet(DictSet(DictSet(d, "systolic", NotVisible), "diastolic", NotVisible),
            "heart_rate", NotVisible)

\* lines 169-170: for key in [...]: extracted_data.setdefault(key, "Not visible")
RelayDefaults(d) ==
    SetDefault(SetDefault(SetDefault(d, "systolic", NotVisible),
                          "diastolic", NotVisible),
               "heart_rate", NotVisible)

Field(d, k) == Str(DictGet(d, k, <<"N/A">>))

\* lines 78-81 of handle_photo
StructuredLinesPhoto(d, date_val) ==
    <<"Systolic (SYS): ">> \o Field(d, "systolic") \o <<" mmHg", "\n">>
    \o <<"Diastolic (DIA): ">> \o Field(d, "diastolic") \o <<" mmHg", "\n">>
    \o <<"Heart Rate (P/min): ">> \o Field(d, "heart_rate") \o <<" bpm", "\n">>
    \o <<"Date: ">> \o Str(date_val) \o <<"\n">>

\* lines 154-159 of handle_text_message
StructuredLinesText(d, date_val) ==
    <<"Systolic (SYS): ">> \o Field(d, "systolic") \o <<" mmHg", "\n">>
    \o <<"Diastolic (DIA): ">> \o Field(d, "diastolic") \o <<" mmHg", "\n">>
    \o <<"Heart Rate (P/min): ">> \o Field(d, "heart_rate") \o <<" bpm", "\n">>
    \o <<"Waist Circumference (LP): ">> \o Field(d, "lingkar_perut") \o <<" cm", "\n">>
    \o <<"Body Weight (BB): ">> \o Field(d, "berat_badan") \o <<" kg", "\n">>
    \o <<"Date: ">> \o Str(date_val) \o <<"\n">>

NextDirect == CallImage \/ CallText \/ CallSend

SpecDirect == InitDirect /\ [][NextDirect]_vars

----------------------------------------------------------------------------
(* telegram_handlers.py: the handlers, one action per step between awaits *)

AuthorizedUser == 1001
Users == {AuthorizedUser, 2002}
Days == {<<"2024-07-28">>, <<"2024-07-29">>}

Init ==
    /\ pc = "idle"
    /\ cfg \in {[auth |-> AuthorizedUser, url |-> u] : u \in Urls}
    /\ today \in Days
    /\ dirExists \in BOOLEAN
    /\ files = {}
    /\ env = NoEnv
    /\ proc = NoProc
    /\ other = NoOther
    /\ Idle

\* await update.message.reply_text(text), which returned
Reply(text) ==
    /\ replies' = Append(replies, text)
    /\ log' = Append(log, "reply")

\* an exception leaves the handler: python-telegram-bot gives it to error_handler
Escapes ==
    /\ pc' = "done"
    /\ escaped' = TRUE

\* app.py main(): the update is dispatched to the handler its filter selects;
\* filters.PHOTO and filters.TEXT give handle_photo a photo and
\* handle_text_message a text
Receive ==
    /\ pc = "idle"
    /\ \E k \in {"start", "photo", "text"}, u \in Users :
          /\ msg' = [kind |-> k, sender |-> u]
          /\ pc' = CASE k = "start" -> "start_command"
                     [] k = "photo" -> "handle_photo"
                     [] OTHER -> "handle_text_message"
    /\ UNCHANGED <<other, env, proc, cfg, today, dirExists, files, resp, extracted_data, reply_message,
                   replies, log, posted, http, sent, escaped>>

\* start_command
StartCommand ==
    /\ pc = "start_command"
    /\ \/ Reply(Welcome) /\ pc' = "done" /\ UNCHANGED escaped
       \/ Escapes /\ UNCHANGED <<replies, log>>
    /\ UNCHANGED <<other, env, proc, msg, cfg, today, dirExists, files, resp, extracted_data,
                   reply_message, posted, http, sent>>

\* the comparison left out
UnauthorizedNever(m, c) == FALSE

\* update.effective_user.id != AUTHORIZED_USER_ID
Unauthorized(m, c) == m.sender # c.auth

\* handle_photo lines 24-31, handle_text_message lines 111-117: the checks
CheckSender ==
    /\ pc \in {"handle_photo", "handle_text_message"}
    /\ IF Unauthorized(msg, cfg)
       THEN \/ Reply(Rejection) /\ pc' = "done" /\ UNCHANGED escaped
            \/ Escapes /\ UNCHANGED <<replies, log>>
       ELSE /\ pc' = IF pc = "handle_photo" THEN "makedirs" ELSE "ack"
            /\ UNCHANGED <<replies, log, escaped>>
    /\ UNCHANGED <<other, env, proc, msg, cfg, today, dirExists, files, resp, extracted_data,
                   reply_message, posted, http, sent>>

\* handle_photo lines 33-36
MakeDirs ==
    /\ pc = "makedirs"
    /\ IF dirExists
       THEN pc' = "get_file" /\ UNCHANGED <<dirExists, log, escaped>>
       ELSE \/ /\ dirExists' = TRUE
               /\ log' = Append(log, "makedirs")
               /\ pc' = "get_file"
               /\ UNCHANGED escaped
            \/ Escapes /\ UNCHANGED <<dirExists, log>>
    /\ UNCHANGED <<other, env, proc, msg, cfg, today, files, resp, extracted_data, reply_message,
                   replies, posted, http, sent>>

\* handle_photo line 38: await context.bot.get_file(...)
GetFile ==
    /\ pc = "get_file"
    /\ \/ log' = Append(log, "get_file") /\ pc' = "download" /\ UNCHANGED escaped
       \/ Escapes /\ UNCHANGED log
    /\ UNCHANGED <<other, env, proc, msg, cfg, today, dirExists, files, resp, extracted_data,
                   reply_message, replies, posted, http, sent>>

\* the handler going on to the analysis with nothing written to the directory
DownloadSkipped ==
    /\ pc = "download"
    /\ pc' = "ack"
    /\ UNCHANGED <<other, env, proc, msg, cfg, today, dirExists, files, resp, extracted_data,
                   reply_message, replies, log, posted, http, sent, escaped>>

\* handle_photo lines 40-46: await photo_file.download_to_drive(image_path)
Download ==
    /\ pc = "download"
    /\ \/ /\ files' = files \cup {ImagePath}
          /\ log' = Append(log, "download_to_drive")
          /\ pc' = "ack"
          /\ UNCHANGED escaped
       \/ Escapes /\ UNCHANGED <<files, log>>
    /\ UNCHANGED <<other, env, proc, msg, cfg, today, dirExists, resp, extracted_data, reply_message,
                   replies, posted, http, sent>>

\* the handler going on to the analysis without an acknowledgement
AcknowledgeSilent ==
    /\ pc = "ack"
    /\ pc' = "analyze"
    /\ UNCHANGED <<other, env, proc, msg, cfg, today, dirExists, files, resp, extracted_data,
                   reply_message, replies, log, posted, http, sent, escaped>>

\* handle_photo line 48, handle_text_message lines 119-121: the acknowledgement
Acknowledge ==
    /\ pc = "ack"
    /\ \/ /\ Reply(IF msg.kind = "photo" THEN AckPhoto ELSE AckText)
          /\ pc' = "analyze"
          /\ UNCHANGED escaped
       \/ Escapes /\ UNCHANGED <<replies, log>>
    /\ UNCHANGED <<other, env, proc, msg, cfg, today, dirExists, files, resp, extracted_data,
                   reply_message, posted, http, sent>>

\* a second invocation is in flight
Concurrent == other.pc # "none"

\* what the provider and the webhook may do in the runs with two messages in
\* flight: a full object, an object with one field, prose, a block, a fault
ConcResponses ==
    { [NormalResponse EXCEPT !.tokens = 258, !.text = <<BodyTok>>,
          !.body = ObjectBody([systolic |-> <<"120">>, diastolic |-> <<"80">>,
                               heart_rate |-> <<"75">>, date |-> NotVisible])],
      [NormalResponse EXCEPT !.text = <<BodyTok>>,
          !.body = ObjectBody([systolic |-> <<"120">>])],
      [NormalResponse EXCEPT !.tokens = 258, !.text = <<BodyTok>>],
      [NormalResponse EXCEPT !.parts = FALSE, !.block_reason = <<"SAFETY">>],
      [NormalResponse EXCEPT !.genFault = TRUE] }

ConcHttp == {[exc |-> FALSE, status |-> 200], [exc |-> FALSE, status |-> 500]}

ResponsesNow == IF Concurrent THEN ConcResponses ELSE HandlerResponses
HttpNow == IF Concurrent THEN ConcHttp ELSE HttpOutcomes

\* handle_photo line 51, handle_text_message line 124: the call of the analyze
\* function; an exception it raises is caught at line 104 / 183
Analyze ==
    /\ pc = "analyze"
    /\ \E r \in ResponsesNow :
          LET o == IF msg.kind = "photo" THEN analyze_tensimeter_image(ImagePath, r)
                   ELSE analyze_text_with_gemini(r)
          IN /\ resp' = r
             /\ log' = log \o o.calls
             /\ extracted_data' = o.data
             /\ pc' = IF o.raised THEN "except" ELSE "render"
    /\ UNCHANGED <<other, env, proc, msg, cfg, today, dirExists, files, reply_message, replies,
                   posted, http, sent, escaped>>

\* handle_photo lines 53-85 and 95-99, handle_text_message lines 126-162 and
\* 175-179: the reply built from the returned dict, and the date written
\* into a structured one
Render ==
    /\ pc = "render"
    /\ LET d == extracted_data
           photo == msg.kind = "photo"
           header == IF photo THEN HeaderPhoto ELSE HeaderText
           e == IF photo THEN EnrichPhoto(d, today) ELSE EnrichText(d, today)
           lines == IF photo THEN StructuredLinesPhoto(d, DateValPhoto(d, today))
                    ELSE StructuredLinesText(d, DateValText(d, today))
       IN CASE Branch(d) = "error" ->
                 /\ reply_message' = header \o ErrorLines(d)
                 /\ pc' = "final_reply"
                 /\ UNCHANGED extracted_data
            [] Branch(d) = "raw_text" ->
                 /\ reply_message' = header \o RawLines(d)
                 /\ pc' = "final_reply"
                 /\ UNCHANGED extracted_data
            [] Branch(d) = "structured" ->
                 /\ extracted_data' = e
                 /\ IF Truthy(cfg.url)
                    THEN reply_message' = header \o lines /\ pc' = "relay"
                    ELSE /\ reply_message' = header \o lines \o NotConfiguredLine
                         /\ pc' = "final_reply"
            [] OTHER ->
                 /\ reply_message' = IF photo THEN NoDataPhoto ELSE NoDataText
                 /\ pc' = "final_reply"
                 /\ UNCHANGED extracted_data
    /\ UNCHANGED <<other, env, proc, msg, cfg, today, dirExists, files, resp, replies, log, posted,
                   http, sent, escaped>>

\* handle_photo lines 86-94, handle_text_message lines 163-174
Relay ==
    /\ pc = "relay"
    /\ \E h \in HttpNow :
          LET d == IF msg.kind = "photo" THEN extracted_data
                   ELSE RelayDefaults(extracted_data)
              o == send_to_gsheet(ObjectBody(d), cfg.url, h)
          IN /\ extracted_data' = d
             /\ http' = h
             /\ sent' = IF o.ret THEN "True" ELSE "False"
             /\ posted' = posted \o o.posts
             /\ log' = log \o <<"send_to_gsheet">>
                           \o (IF o.posts # <<>> THEN <<"requests.post">> ELSE <<>>)
             /\ reply_message' = reply_message
                                   \o (IF o.ret THEN SavedLine ELSE NotSavedLine)
    /\ pc' = "final_reply"
    /\ UNCHANGED <<other, env, proc, msg, cfg, today, dirExists, files, resp, replies, escaped>>

\* handle_photo lines 101-102, handle_text_message lines 181-182; an
\* exception of reply_text is caught at line 104 / 183
FinalReply ==
    /\ pc = "final_reply"
    /\ \/ /\ Reply(reply_message \o TokenLine(extracted_data))
          /\ reply_message' = reply_message \o TokenLine(extracted_data)
          /\ pc' = "done"
       \/ /\ reply_message' = reply_message \o TokenLine(extracted_data)
          /\ pc' = "except"
          /\ UNCHANGED <<replies, log>>
    /\ UNCHANGED <<other, env, proc, msg, cfg, today, dirExists, files, resp, extracted_data, posted,
                   http, sent, escaped>>

\* handle_photo lines 104-106, handle_text_message lines 183-185
Except ==
    /\ pc = "except"
    /\ \/ /\ Reply(IF msg.kind = "photo" THEN FailurePhoto ELSE FailureText)
          /\ pc' = "done"
          /\ UNCHANGED escaped
       \/ Escapes /\ UNCHANGED <<replies, log>>
    /\ UNCHANGED <<other, env, proc, msg, cfg, today, dirExists, files, resp, extracted_data,
                   reply_message, posted, http, sent>>

Next ==
    \/ Receive
    \/ StartCommand
    \/ CheckSender
    \/ MakeDirs
    \/ GetFile
    \/ Download
    \/ Acknowledge
    \/ Analyze
    \/ Render
    \/ Relay
    \/ FinalReply
    \/ Except

Spec == Init /\ [][Next]_vars

----------------------------------------------------------------------------
(* app.py lines 26-79 and main() (config.py lines 7-48): startup *)

Digits == {"1", "7"}
IdChars == Digits \cup {"-", " ", "x"}

DigitValue(c) == IF c = "1" THEN 1 ELSE 7

RECURSIVE DigitsValue(_)
DigitsValue(ds) ==
    IF ds = <<>> THEN 0
    ELSE 10 * DigitsValue(SubSeq(ds, 1, Len(ds) - 1)) + DigitValue(ds[Len(ds)])

RECURSIVE StripSpaces(_)
StripSpaces(s) ==
    IF s # <<>> /\ Head(s) = " " THEN StripSpaces(Tail(s))
    ELSE IF s # <<>> /\ s[Len(s)] = " " THEN StripSpaces(SubSeq(s, 1, Len(s) - 1))
    ELSE s

\* int() taking every text for the number 0
PyIntLenient(s) == [ok |-> TRUE, val |-> 0]

\* int(s) for a string of characters: surrounding spaces, an optional sign
\* and at least one digit; anything else is a ValueError
PyInt(s) ==
    LET t == StripSpaces(s)
        neg == t # <<>> /\ Head(t) = "-"
        ds == IF neg THEN Tail(t) ELSE t
    IN IF ds # <<>> /\ \A i \in DOMAIN ds : ds[i] \in Digits
       THEN [ok |-> TRUE, val |-> IF neg THEN 0 - DigitsValue(ds) ELSE DigitsValue(ds)]
       ELSE [ok |-> FALSE, val |-> 0]

\* os.getenv(name): None when the variable is unset, else its text
EnvTexts == {PyNone, <<>>, <<"x">>}
IdTexts == {PyNone} \cup UNION {[1..k -> IdChars] : k \in 0..MaxIdLen}

Envs == { [key |-> k, token |-> t, uid |-> u, url |-> w] :
            k \in EnvTexts, t \in EnvTexts, u \in IdTexts, w \in Urls }

Starting == [status |-> "starting", code |-> 0, logging |-> FALSE, handlers |-> {},
             cause |-> "none"]

InitStartup ==
    /\ pc = "load_key"
    /\ env \in Envs
    /\ proc = Starting
    /\ cfg = NoCfg
    /\ today = <<"2024-07-29">>
    /\ dirExists = FALSE
    /\ files = {}
    /\ other = NoOther
    /\ Idle

\* print(...) and exit(1)
Exit(cause) ==
    /\ proc' = [proc EXCEPT !.status = "exited", !.code = 1, !.cause = cause]
    /\ log' = log \o <<"print", "exit">>
    /\ pc' = "exited"

Continue(to) ==
    /\ pc' = to
    /\ UNCHANGED <<proc, log>>

StartupFrame ==
    UNCHANGED <<msg, today, dirExists, files, resp, extracted_data, reply_message,
                replies, posted, http, sent, escaped, env, other>>

\* app.py lines 26-33: GOOGLE_API_KEY
LoadKey ==
    /\ pc = "load_key"
    /\ IF ~Truthy(env.key) THEN Exit("GOOGLE_API_KEY") ELSE Continue("configure")
    /\ UNCHANGED cfg
    /\ StartupFrame

\* app.py lines 36-40: genai.configure, which may raise
ConfigureGemini ==
    /\ pc = "configure"
    /\ \/ Continue("check_token")
       \/ Exit("genai.configure")
    /\ UNCHANGED cfg
    /\ StartupFrame

\* app.py lines 43-50: the other variables are read, TELEGRAM_BOT_TOKEN is checked
CheckToken ==
    /\ pc = "check_token"
    /\ cfg' = [cfg EXCEPT !.url = env.url]
    /\ IF ~Truthy(env.token) THEN Exit("TELEGRAM_BOT_TOKEN") ELSE Continue("parse_id")
    /\ StartupFrame

\* app.py lines 52-63: AUTHORIZED_USER_ID
ParseUserId ==
    /\ pc = "parse_id"
    /\ IF Truthy(env.uid)
       THEN IF PyInt(env.uid).ok
            THEN /\ cfg' = [cfg EXCEPT !.auth = PyInt(env.uid).val]
                 /\ Continue("logging")
            ELSE /\ Exit("AUTHORIZED_USER_ID not an integer")
                 /\ UNCHANGED cfg
       ELSE /\ Exit("AUTHORIZED_USER_ID not set")
            /\ UNCHANGED cfg
    /\ StartupFrame

\* app.py lines 67-75: logging.basicConfig
SetupLogging ==
    /\ pc = "logging"
    /\ proc' = [proc EXCEPT !.logging = TRUE]
    /\ log' = Append(log, "logging.basicConfig")
    /\ pc' = "main"
    /\ UNCHANGED cfg
    /\ StartupFrame

\* app.py lines 466-476: main() builds the application, registers the
\* handlers and starts polling; an exception of the library ends the process
Main ==
    /\ pc = "main"
    /\ \/ /\ proc' = [proc EXCEPT !.status = "running",
                                  !.handlers = {"start_command", "handle_photo",
                                                "handle_text_message", "error_handler"}]
          /\ log' = log \o <<"add_handler", "run_polling">>
          /\ pc' = "idle"
       \/ /\ proc' = [proc EXCEPT !.status = "crashed", !.code = 1,
                                  !.cause = "Application"]
          /\ log' = log
          /\ pc' = "exited"
    /\ UNCHANGED cfg
    /\ StartupFrame

NextStartup ==
    \/ LoadKey
    \/ ConfigureGemini
    \/ CheckToken
    \/ ParseUserId
    \/ SetupLogging
    \/ Main

SpecStartup == InitStartup /\ [][NextStartup]_vars

----------------------------------------------------------------------------
(* The handler runs together with the direct calls of the functions they   *)
(* use: a run is one or the other                                          *)

InitAll == Init \/ InitDirect

NextAll == Next \/ NextDirect

SpecAll == InitAll /\ [][NextAll]_vars

----------------------------------------------------------------------------
(* Two handler invocations in flight: the event loop runs one of them at a *)
(* time and may change to the other where the running one awaits           *)

\* the local variables of the running invocation
Locals ==
    [pc |-> pc, msg |-> msg, resp |-> resp, extracted_data |-> extracted_data,
     reply_message |-> reply_message, replies |-> replies, log |-> log,
     posted |-> posted, http |-> http, sent |-> sent, escaped |-> escaped]

\* where an invocation may be suspended: before it starts, in an await
\* (reply_text, get_file, download_to_drive), and when it has ended; not
\* between the test of os.path.exists and os.makedirs, nor between the
\* analysis, the rendering and the relay, which have no await between them
AwaitPoints ==
    {"idle", "start_command", "handle_photo", "handle_text_message", "get_file",
     "download", "ack", "analyze", "final_reply", "except", "done"}

\* the change with extracted_data a module-level variable of the handlers
SwitchSharingData ==
    /\ Concurrent
    /\ pc \in AwaitPoints
    /\ other' = Locals
    /\ pc' = other.pc
    /\ msg' = other.msg
    /\ resp' = other.resp
    /\ reply_message' = other.reply_message
    /\ replies' = other.replies
    /\ log' = other.log
    /\ posted' = other.posted
    /\ http' = other.http
    /\ sent' = other.sent
    /\ escaped' = other.escaped
    /\ UNCHANGED <<extracted_data, cfg, today, dirExists, files, env, proc>>

\* the event loop suspends the running invocation and resumes the other
Switch ==
    /\ Concurrent
    /\ pc \in AwaitPoints
    /\ other' = Locals
    /\ pc' = other.pc
    /\ msg' = other.msg
    /\ resp' = other.resp
    /\ extracted_data' = other.extracted_data
    /\ reply_message' = other.reply_message
    /\ replies' = other.replies
    /\ log' = other.log
    /\ posted' = other.posted
    /\ http' = other.http
    /\ sent' = other.sent
    /\ escaped' = other.escaped
    /\ UNCHANGED <<cfg, today, dirExists, files, env, proc>>

InitConc ==
    /\ pc = "idle"
    /\ cfg \in {[auth |-> AuthorizedUser, url |-> u] : u \in Urls \ {<<>>}}
    /\ today = <<"2024-07-29">>
    /\ dirExists = FALSE
    /\ files = {}
    /\ env = NoEnv
    /\ proc = NoProc
    /\ other = [NoOther EXCEPT !.pc = "idle"]
    /\ Idle

NextConc == Next \/ Switch

SpecConc == InitConc /\ [][NextConc]_vars

\* what a handler replies, which provider calls it makes and what it relays
\* for one message handled alone, no Telegram or file-system call faulting
HandleAlone(m, c, r, h, now) ==
    IF m.kind = "start"
    THEN [replies |-> <<Welcome>>, calls |-> <<>>, posted |-> <<>>]
    ELSE IF Unauthorized(m, c)
    THEN [replies |-> <<Rejection>>, calls |-> <<>>, posted |-> <<>>]
    ELSE
    LET photo == m.kind = "photo"
        ack == IF photo THEN AckPhoto ELSE AckText
        o == IF photo THEN analyze_tensimeter_image(ImagePath, r)
             ELSE analyze_text_with_gemini(r)
        d == o.data
        header == IF photo THEN HeaderPhoto ELSE HeaderText
        lines == IF photo THEN StructuredLinesPhoto(d, DateValPhoto(d, now))
                 ELSE StructuredLinesText(d, DateValText(d, now))
        rec == IF photo THEN EnrichPhoto(d, now) ELSE RelayDefaults(EnrichText(d, now))
        g == send_to_gsheet(ObjectBody(rec), c.url, h)
        body == CASE Branch(d) = "error" -> header \o ErrorLines(d)
                  [] Branch(d) = "raw_text" -> header \o RawLines(d)
                  [] Branch(d) = "structured" ->
                       header \o lines
                         \o (IF ~Truthy(c.url) THEN NotConfiguredLine
                             ELSE IF g.ret THEN SavedLine ELSE NotSavedLine)
                  [] OTHER -> IF photo THEN NoDataPhoto ELSE NoDataText
    IN IF o.raised
       THEN [replies |-> <<ack, IF photo THEN FailurePhoto ELSE FailureText>>,
             calls |-> o.calls, posted |-> <<>>]
       ELSE [replies |-> <<ack, body \o TokenLine(d)>>, calls |-> o.calls,
             posted |-> IF Branch(d) = "structured" THEN g.posts ELSE <<>>]

----------------------------------------------------------------------------
(* app.py: the same functions and handlers in one module *)

\* the fence handling with the branch for a generic fence that the text
\* function has
app_StripFencesImageGeneric(response_text) ==
    LET a == IF StartsWith(response_text, <<Fence, JsonTag>>)
             THEN DropChars(response_text, JsonFenceLen)
             ELSE IF StartsWith(response_text, <<Fence>>)
             THEN DropChars(response_text, FenceLen)
             ELSE response_text
    IN IF EndsWith(a, <<Fence>>) THEN DropLastChars(a, FenceLen) ELSE a

\* app.py lines 117-120
app_StripFencesImage(response_text) ==
    LET a == IF StartsWith(response_text, <<Fence, JsonTag>>)
             THEN DropChars(response_text, JsonFenceLen)
             ELSE response_text
    IN IF EndsWith(a, <<Fence>>) THEN DropLastChars(a, FenceLen) ELSE a

\* app.py lines 172-178
app_StripFencesText(response_text) ==
    LET a == IF StartsWith(response_text, <<Fence, JsonTag>>)
             THEN DropChars(response_text, JsonFenceLen)
             ELSE IF StartsWith(response_text, <<Fence>>)
             THEN DropChars(response_text, FenceLen)
             ELSE response_text
    IN IF EndsWith(a, <<Fence>>) THEN DropLastChars(a, FenceLen) ELSE a

\* app.py lines 102-108 and 158-164
app_NoParts(r, calls, onAttrError) ==
    IF r.feedback = "noattr" THEN onAttrError
    ELSE IF r.feedback = "set" /\ Truthy(r.block_reason)
    THEN Returned([error |-> <<"Request blocked: ">>
                               \o (IF Truthy(r.block_msg) THEN Str(r.block_msg)
                                   ELSE Str(r.block_reason))], calls)
    ELSE Returned([error |-> <<"No content parts in response.">>], calls)

\* app.py lines 134-139
app_ExceptImage(r, haveResponse, e, calls) ==
    IF haveResponse /\ r.feedback = "none" THEN Raised(calls)
    ELSE Returned([error |-> e], calls)

\* app.py lines 82-139
app_analyze_tensimeter_image(image_path, r) ==
    LET c1 == <<"count_tokens">>
        c2 == <<"count_tokens", "generate_content">>
        response_text == app_StripFencesImage(Strip(r.text))
        p == JsonLoads(response_text, r.body)
    IN
    IF r.image = "missing"
    THEN Returned([error |-> <<"Image file not found: ">> \o image_path], <<>>)
    ELSE IF r.image = "bad"
    THEN app_ExceptImage(r, FALSE, <<"cannot identify image file">>, <<>>)
    ELSE IF r.countFault THEN app_ExceptImage(r, FALSE, <<"count_tokens failed">>, c1)
    ELSE IF r.genFault THEN app_ExceptImage(r, FALSE, <<"generate_content failed">>, c2)
    ELSE IF ~r.parts THEN app_NoParts(r, c2, app_ExceptImage(r, TRUE, AttrError, c2))
    ELSE IF r.textFault THEN app_ExceptImage(r, TRUE, <<"response.text failed">>, c2)
    ELSE IF ~p.ok
    THEN Returned([raw_text |-> response_text, error_detail |-> p.err], c2)
    ELSE IF r.body.kind # "object" THEN app_ExceptImage(r, TRUE, ItemAssignError, c2)
    ELSE Returned(DictSet(p.val, "_token_count", r.tokens), c2)

\* app.py lines 142-191
app_analyze_text_with_gemini(r) ==
    LET c1 == <<"count_tokens">>
        c2 == <<"count_tokens", "generate_content">>
        response_text == app_StripFencesText(Strip(r.text))
        p == JsonLoads(response_text, r.body)
    IN
    IF r.countFault THEN Returned([error |-> <<"count_tokens failed">>], c1)
    ELSE IF r.genFault THEN Returned([error |-> <<"generate_content failed">>], c2)
    ELSE IF ~r.parts THEN app_NoParts(r, c2, Returned([error |-> AttrError], c2))
    ELSE IF r.textFault THEN Returned([error |-> <<"response.text failed">>], c2)
    ELSE IF ~p.ok
    THEN Returned([raw_text |-> response_text, error_detail |-> p.err], c2)
    ELSE IF r.body.kind # "object" THEN Returned([error |-> ItemAssignError], c2)
    ELSE Returned(DictSet(p.val, "_token_count", r.tokens), c2)

\* app.py lines 194-210
app_send_to_gsheet(data_json, webhook_url, h) ==
    IF ~Truthy(webhook_url) THEN [ret |-> FALSE, posts |-> <<>>]
    ELSE IF data_json.kind # "object" THEN [ret |-> FALSE, posts |-> <<>>]
    ELSE IF h.exc \/ (400 <= h.status /\ h.status < 600)
    THEN [ret |-> FALSE, posts |-> <<data_json.val>>]
    ELSE [ret |-> TRUE, posts |-> <<data_json.val>>]

\* app.py lines 295-382: handle_photo once the sender is authorized, no
\* Telegram or file-system call faulting
app_handle_photo(c, r, h, now) ==
    LET o == app_analyze_tensimeter_image(ImagePath, r)
        d == o.data
        rewrite == DictGet(d, "date", NotVisible) = NotVisible \/ "date" \notin DOMAIN d
        date_val == IF rewrite THEN now ELSE DictGet(d, "date", NotVisible)
        rec == IF rewrite THEN DictSet(d, "date", now) ELSE d
        g == app_send_to_gsheet(ObjectBody(rec), c.url, h)
        body ==
            IF d # EmptyDict /\ "error" \in DOMAIN d THEN HeaderPhoto \o ErrorLines(d)
            ELSE IF d # EmptyDict /\ "raw_text" \in DOMAIN d THEN HeaderPhoto \o RawLines(d)
            ELSE IF d # EmptyDict
            THEN HeaderPhoto \o StructuredLinesPhoto(d, date_val)
                   \o (IF Truthy(c.url)
                       THEN (IF g.ret THEN SavedLine ELSE NotSavedLine)
                       ELSE NotConfiguredLine)
            ELSE NoDataPhoto
        relayed == d # EmptyDict /\ "error" \notin DOMAIN d /\ "raw_text" \notin DOMAIN d
                     /\ Truthy(c.url)
    IN IF o.raised
       THEN [replies |-> <<AckPhoto, FailurePhoto>>, calls |-> o.calls, posted |-> <<>>]
       ELSE [replies |-> <<AckPhoto, body \o TokenLine(d)>>, calls |-> o.calls,
             posted |-> IF relayed THEN g.posts ELSE <<>>]

\* app.py lines 384-460: handle_text_message once the sender is authorized
app_handle_text_message(c, r, h, now) ==
    LET o == app_analyze_text_with_gemini(r)
        d == o.data
        rewrite == \/ DictGet(d, "date", NotVisible) = NotVisible
                   \/ ~Truthy(DictGet(d, "date", NotVisible))
                   \/ "date" \notin DOMAIN d
        date_val == IF rewrite THEN now ELSE DictGet(d, "date", NotVisible)
        dated == IF rewrite THEN DictSet(d, "date", now) ELSE d
        rec == SetDefault(SetDefault(SetDefault(dated, "systolic", NotVisible),
                                     "diastolic", NotVisible),
                          "heart_rate", NotVisible)
        g == app_send_to_gsheet(ObjectBody(rec), c.url, h)
        body ==
            IF d # EmptyDict /\ "error" \in DOMAIN d THEN HeaderText \o ErrorLines(d)
            ELSE IF d # EmptyDict /\ "raw_text" \in DOMAIN d THEN HeaderText \o RawLines(d)
            ELSE IF d # EmptyDict
            THEN HeaderText \o StructuredLinesText(d, date_val)
                   \o (IF Truthy(c.url)
                       THEN (IF g.ret THEN SavedLine ELSE NotSavedLine)
                       ELSE NotConfiguredLine)
            ELSE NoDataText
        relayed == d # EmptyDict /\ "error" \notin DOMAIN d /\ "raw_text" \notin DOMAIN d
                     /\ Truthy(c.url)
    IN IF o.raised
       THEN [replies |-> <<AckText, FailureText>>, calls |-> o.calls, posted |-> <<>>]
       ELSE [replies |-> <<AckText, body \o TokenLine(d)>>, calls |-> o.calls,
             posted |-> IF relayed THEN g.posts ELSE <<>>]

\* app.py lines 288-460 as main() registers them (lines 470-472): what is
\* replied, which provider calls are made and what is relayed for a message
app_handle(m, c, r, h, now) ==
    IF m.kind = "start"
    THEN [replies |-> <<Welcome>>, calls |-> <<>>, posted |-> <<>>]
    ELSE IF m.sender # c.auth
    THEN [replies |-> <<Rejection>>, calls |-> <<>>, posted |-> <<>>]
    ELSE IF m.kind = "photo" THEN app_handle_photo(c, r, h, now)
    ELSE app_handle_text_message(c, r, h, now)

----------------------------------------------------------------------------
(* The claims about the analyze functions, checked under SpecDirect *)

Returned_ == pc \in {"image_returned", "text_returned"}

\* t is body text inside a fence opened by open and closed by a fence marker
IsWrapped(t, open) ==
    /\ Len(t) >= Len(open) + 2
    /\ StartsWith(t, open)
    /\ EndsWith(t, <<Fence>>)
    /\ Strip(SubSeq(t, Len(open) + 1, Len(t) - 1)) = <<BodyTok>>

FencedObject(r) ==
    /\ HasCompletion(r)
    /\ r.body.kind = "object"
    /\ IsWrapped(Strip(r.text), <<Fence, JsonTag>>) \/ IsWrapped(Strip(r.text), <<Fence>>)

\* the completion text with the opening fence (JSON-tagged or generic) and
\* the closing fence removed
Unfenced(t) ==
    LET a == IF StartsWith(t, <<Fence, JsonTag>>) THEN SubSeq(t, 3, Len(t))
             ELSE IF StartsWith(t, <<Fence>>) THEN SubSeq(t, 2, Len(t))
             ELSE t
    IN IF EndsWith(a, <<Fence>>) THEN SubSeq(a, 1, Len(a) - 1) ELSE a

StructuredOf(r) == DictSet(r.body.val, "_token_count", r.tokens)

\* C1: a JSON object wrapped in a JSON-tagged fence or in a generic fence is
\* returned by both analyze functions as the object itself plus the token
\* count, as it is when unfenced.
C1_FenceRoundTrip ==
    (Returned_ /\ FencedObject(resp))
        => (~escaped /\ extracted_data = StructuredOf(resp))

\* C1, for analyze_text_with_gemini alone
C1_FenceRoundTripText ==
    (pc = "text_returned" /\ FencedObject(resp))
        => (~escaped /\ extracted_data = StructuredOf(resp))

\* C1, for analyze_tensimeter_image and the JSON-tagged fence alone
C1_FenceRoundTripImageTagged ==
    (pc = "image_returned" /\ HasCompletion(resp) /\ resp.body.kind = "object"
        /\ IsWrapped(Strip(resp.text), <<Fence, JsonTag>>))
        => (~escaped /\ extracted_data = StructuredOf(resp))

\* C2: a completion that is not valid JSON once its fence markers are
\* removed is returned by both analyze functions as raw_text and
\* error_detail, without an error key, raw_text being the completion without
\* its leading and trailing fence markers; no exception escapes.
C2_UnparsedKeepsText ==
    (Returned_ /\ HasCompletion(resp)
        /\ ~JsonLoads(Unfenced(Strip(resp.text)), resp.body).ok)
        => /\ ~escaped
           /\ DOMAIN extracted_data = {"raw_text", "error_detail"}
           /\ extracted_data.raw_text = Unfenced(Strip(resp.text))

\* C2, for analyze_text_with_gemini alone
C2_UnparsedKeepsTextText ==
    (pc = "text_returned" /\ HasCompletion(resp)
        /\ ~JsonLoads(Unfenced(Strip(resp.text)), resp.body).ok)
        => /\ ~escaped
           /\ DOMAIN extracted_data = {"raw_text", "error_detail"}
           /\ extracted_data.raw_text = Unfenced(Strip(resp.text))

\* C3: a completion that is valid JSON but not an object is returned by both
\* analyze functions as raw_text and error_detail, raw_text holding its text.
C3_NonObjectIsUnparsed ==
    (Returned_ /\ HasCompletion(resp) /\ resp.body.kind \in JsonKinds \ {"object"}
        /\ Strip(Unfenced(Strip(resp.text))) = <<BodyTok>>)
        => /\ ~escaped
           /\ "raw_text" \in DOMAIN extracted_data
           /\ "error" \notin DOMAIN extracted_data
           /\ extracted_data.raw_text = Unfenced(Strip(resp.text))

----------------------------------------------------------------------------
(* The claims about the handlers, checked under Spec, and about            *)
(* send_to_gsheet, checked under SpecDirect                                *)

InLog(x) == \E i \in DOMAIN log : log[i] = x

Last(q) == q[Len(q)]

\* the handler sent the reply it built (not the failure reply)
FinalReplySent == pc = "done" /\ replies # <<>> /\ Last(replies) = reply_message

FromAuthorized == msg.kind \in {"photo", "text"} /\ msg.sender = cfg.auth

\* C4 as stated: a message of any kind from a sender other than
\* AUTHORIZED_USER_ID is answered by the rejection text alone, and no
\* provider call is made.
C4_OnlyRejection ==
    (msg.kind # "none" /\ msg.sender # cfg.auth)
        => /\ \A i \in DOMAIN replies : replies[i] = Rejection
           /\ ~InLog("count_tokens") /\ ~InLog("generate_content")

\* C4 amended: a text message or a photo from a sender other than
\* AUTHORIZED_USER_ID is answered by the rejection text alone, the /start
\* command by the welcome text alone; in all three cases no provider call
\* is made.
C4_UnauthorizedNoInference ==
    (msg.kind # "none" /\ msg.sender # cfg.auth)
        => /\ \A i \in DOMAIN replies :
                 replies[i] = IF msg.kind = "start" THEN Welcome ELSE Rejection
           /\ Len(replies) <= 1
           /\ (pc = "done" /\ ~escaped) => Len(replies) = 1
           /\ ~InLog("count_tokens") /\ ~InLog("generate_content")
           /\ posted = <<>>

C4_Witness ==
    /\ pc = "done"
    /\ msg.kind = "photo"
    /\ msg.sender # cfg.auth
    /\ replies = <<Rejection>>

\* C5: no fault raised while an authorized message is handled leaves
\* handle_photo or handle_text_message.
C5_NoFaultEscapes == FromAuthorized => ~escaped

\* An Unparsed outcome: raw_text and error_detail, no error key
IsUnparsed(d) == DOMAIN d = {"raw_text", "error_detail"}

\* C6: the final reply for an Unparsed outcome contains the raw text and the
\* parse-error detail.
C6_UnparsedReplyHasDetail ==
    (FinalReplySent /\ IsUnparsed(extracted_data))
        => /\ Contains(Last(replies), extracted_data["raw_text"])
           /\ Contains(Last(replies), extracted_data["error_detail"])

\* the analyze function returned a parsed JSON object
IsStructured(d) == "_token_count" \in DOMAIN d

\* the handler took the structured branch and its date step has run
Enriched ==
    /\ pc \in {"relay", "final_reply", "except", "done"}
    /\ IsStructured(extracted_data)
    /\ Branch(StructuredOf(resp)) = "structured"

DateLine(v) == <<"Date: ">> \o Str(v) \o <<"\n">>

\* the record, the reply and the relayed body carry the date v
DateIs(v) ==
    /\ extracted_data["date"] = v
    /\ Contains(reply_message, DateLine(v))
    /\ \A i \in DOMAIN posted : posted[i]["date"] = v

C8_EnrichmentIdempotent ==
    Enriched =>
        IF msg.kind = "photo"
        THEN EnrichPhoto(extracted_data, today) = extracted_data
        ELSE /\ EnrichText(extracted_data, today) = extracted_data
             /\ InLog("send_to_gsheet")
                    => RelayDefaults(EnrichText(extracted_data, today)) = extracted_data

C8_Witness ==
    /\ pc = "done"
    /\ Enriched
    /\ msg.kind = "photo"
    /\ "date" \notin DOMAIN resp.body.val
    /\ extracted_data["date"] = today

\* C9 as stated: send_to_gsheet returns False without a request when the
\* URL is empty or unset, and with a URL returns False for every status
\* outside 200-299 and for every transport exception.
C9_FalseUnless2xx ==
    pc = "send_returned" =>
        IF ~Truthy(cfg.url) THEN sent = "False" /\ posted = <<>>
        ELSE (http.exc \/ http.status < 200 \/ http.status > 299) => sent = "False"

\* C9 amended: send_to_gsheet returns False without a request when the URL
\* is empty or unset or the data is no dict; with a URL and a dict it makes
\* one request and returns False exactly when the request raises or the
\* status is in 400-599, True for every other status (1xx, 2xx, 3xx).
C9_FalseOn4xx5xx ==
    pc = "send_returned" =>
        IF ~Truthy(cfg.url) \/ resp.body.kind # "object"
        THEN sent = "False" /\ posted = <<>>
        ELSE /\ posted = <<resp.body.val>>
             /\ sent = IF http.exc \/ (http.status >= 400 /\ http.status <= 599)
                       THEN "False" ELSE "True"

C9_Witness ==
    /\ pc = "send_returned"
    /\ Truthy(cfg.url)
    /\ ~http.exc
    /\ http.status = 304
    /\ sent = "True"

BlockedSafety == [error |-> <<"Request blocked: ", "SAFETY">>]

----------------------------------------------------------------------------
(* The claims about blocked and empty responses, checked under SpecDirect *)

\* the provider was asked and a response came back
HaveResponse(r) == r.image = "ok" /\ ~r.countFault /\ ~r.genFault

\* response.prompt_feedback.block_reason is set
BlockSignalled(r) == r.feedback = "set" /\ Truthy(r.block_reason)

\* C11 as stated: whenever block_reason is set both analyze functions return
\* the error "Request blocked: " followed by the reason; when there are no
\* content parts and no block reason they return the error "No content
\* parts in response.".
C11_BlockedWheneverSignalled ==
    (Returned_ /\ HaveResponse(resp)) =>
        /\ BlockSignalled(resp) =>
              /\ ~escaped
              /\ extracted_data = ErrorDict(<<"Request blocked: ">> \o resp.block_reason)
        /\ (~resp.parts /\ ~BlockSignalled(resp)) =>
              /\ ~escaped
              /\ extracted_data = ErrorDict(<<"No content parts in response.">>)

\* C11 amended: when the response has no content parts, both analyze
\* functions return, after the two provider calls and without parsing, the
\* error "Request blocked: " followed by block_reason_message if it is not
\* empty and by block_reason otherwise when block_reason is set; an error
\* carrying the AttributeError when the response has no prompt_feedback
\* attribute; and the error "No content parts in response." otherwise.  A
\* response that has content parts is never reported as blocked.
C11_BlockedWhenNoParts ==
    (Returned_ /\ HaveResponse(resp)) =>
        IF ~resp.parts
        THEN /\ ~escaped
             /\ log = <<"count_tokens", "generate_content">>
             /\ extracted_data =
                   CASE BlockSignalled(resp) ->
                          ErrorDict(<<"Request blocked: ">>
                                    \o (IF resp.block_msg # <<>> THEN resp.block_msg
                                        ELSE resp.block_reason))
                     [] resp.feedback = "noattr" -> ErrorDict(AttrError)
                     [] OTHER -> ErrorDict(<<"No content parts in response.">>)
        ELSE ~escaped =>
               ~("error" \in DOMAIN extracted_data
                   /\ StartsWith(extracted_data["error"], <<"Request blocked: ">>))

C11_Witness ==
    /\ pc = "image_returned"
    /\ ~resp.parts
    /\ resp.block_reason = <<"SAFETY">>
    /\ resp.block_msg = <<"The prompt was blocked.">>
    /\ extracted_data = ErrorDict(<<"Request blocked: ", "The prompt was blocked.">>)

\* an analyze function parsed the completion as a JSON object and returned it
ReturnedStructured ==
    /\ Returned_
    /\ ~escaped
    /\ HasCompletion(resp)
    /\ resp.body.kind = "object"
    /\ IsStructured(extracted_data)

\* C12 as stated: a Structured outcome carries every key of the field set of
\* its prompt, whatever JSON object the provider returned, {} included.
C12_FieldSetPresent ==
    ReturnedStructured =>
        (IF pc = "image_returned" THEN ImageFields ELSE TextFields)
            \subseteq DOMAIN extracted_data

\* C12 amended: a Structured outcome is the provider's JSON object as parsed
\* plus the key _token_count: a field the object lacks is absent from the
\* record, and for {} the record holds _token_count alone.
C12_ObjectReturnedAsIs ==
    ReturnedStructured =>
        /\ DOMAIN extracted_data = DOMAIN resp.body.val \cup {"_token_count"}
        /\ \A k \in DOMAIN resp.body.val : extracted_data[k] = resp.body.val[k]
        /\ extracted_data["_token_count"] = resp.tokens

C12_Witness ==
    /\ pc = "text_returned"
    /\ ReturnedStructured
    /\ resp.body.val = EmptyDict
    /\ DOMAIN extracted_data = {"_token_count"}

----------------------------------------------------------------------------
(* The claims about the handlers' treatment of the outcomes, checked under *)
(* Spec                                                                    *)

\* C13: a completion that parsed as a JSON object is handled as Structured
\* whatever keys it carries, keys named error or raw_text included: the
\* reply shows the field lines, the date step has run, and the record is
\* relayed when a URL is configured.
C13_ObjectHandledAsStructured ==
    (FinalReplySent /\ FromAuthorized /\ HasCompletion(resp)
        /\ resp.body.kind = "object" /\ IsStructured(extracted_data))
        => /\ Contains(Last(replies), <<"Systolic (SYS): ">>)
           /\ "date" \in DOMAIN extracted_data
           /\ Truthy(cfg.url) => InLog("send_to_gsheet")

\* C14: every record handle_text_message passes to send_to_gsheet carries
\* systolic, diastolic and heart_rate, each with the provider's value when
\* the provider's object has the key (null included) and "Not visible"
\* otherwise.
C14_TextRelayDefaults ==
    msg.kind = "text" =>
        \A i \in DOMAIN posted :
            \A k \in {"systolic", "diastolic", "heart_rate"} :
                /\ k \in DOMAIN posted[i]
                /\ posted[i][k] = IF k \in DOMAIN resp.body.val
                                  THEN resp.body.val[k] ELSE NotVisible

C14_Witness ==
    /\ pc = "done"
    /\ msg.kind = "text"
    /\ posted # <<>>
    /\ "systolic" \notin DOMAIN resp.body.val
    /\ posted[1]["systolic"] = NotVisible
    /\ "diastolic" \in DOMAIN resp.body.val
    /\ posted[1]["diastolic"] = <<"80">>

----------------------------------------------------------------------------
(* The claim about faults inside the analyze functions, checked under      *)
(* SpecDirect                                                              *)

\* C15: no exception leaves analyze_tensimeter_image or
\* analyze_text_with_gemini: a missing image file gives the error "Image
\* file not found: <path>", and a fault of Image.open, count_tokens,
\* generate_content, response.text or of the handling of the parsed value
\* gives an error record, whatever response.prompt_feedback is.
C15_NoExceptionEscapes ==
    Returned_ =>
        /\ ~escaped
        /\ (pc = "image_returned" /\ resp.image = "missing")
              => extracted_data = ErrorDict(<<"Image file not found: ">> \o ImagePath)
        /\ (\/ resp.image = "bad"
            \/ resp.image = "ok" /\ (resp.countFault \/ resp.genFault)
            \/ HaveResponse(resp) /\ resp.parts /\ resp.textFault
            \/ HasCompletion(resp) /\ resp.body.kind \in JsonKinds \ {"object"}
                 /\ Strip(resp.text) = <<BodyTok>>)
              => DOMAIN extracted_data = {"error"}

----------------------------------------------------------------------------
(* The claim about startup, checked under SpecStartup *)

\* the text is a decimal integer: an optional minus sign and digits, spaces
\* around them allowed
IsIntegerText(s) ==
    \E a \in 1..Len(s), b \in 1..Len(s) :
        /\ a <= b
        /\ \A i \in 1..Len(s) : (i < a \/ i > b) => s[i] = " "
        /\ s[b] \in Digits
        /\ s[a] \in Digits \cup {"-"}
        /\ \A i \in (a + 1)..b : s[i] \in Digits

ValidEnv(e) ==
    /\ e.key \notin {PyNone, <<>>}
    /\ e.token \notin {PyNone, <<>>}
    /\ e.uid # PyNone
    /\ IsIntegerText(e.uid)

\* C16: the process is running (logging configured, handlers registered,
\* polling started) only if GOOGLE_API_KEY and TELEGRAM_BOT_TOKEN are not
\* empty and AUTHORIZED_USER_ID is set and parses as an integer; with any
\* other environment it exits with status 1 and logging is never
\* configured; APP_SCRIPT_URL is never a reason to exit.
C16_StartupGate ==
    /\ proc.status = "running"
          => /\ ValidEnv(env)
             /\ proc.logging
             /\ proc.handlers = {"start_command", "handle_photo",
                                 "handle_text_message", "error_handler"}
             /\ InLog("run_polling")
    /\ ~ValidEnv(env)
          => /\ ~proc.logging
             /\ ~InLog("logging.basicConfig")
             /\ pc = "exited" => (proc.status = "exited" /\ proc.code = 1)
             /\ pc \in {"load_key", "configure", "check_token", "parse_id", "exited"}
    /\ (ValidEnv(env) /\ pc = "exited")
          => proc.cause \in {"genai.configure", "Application"}

C16_Witness ==
    /\ proc.status = "running"
    /\ env.url = PyNone
    /\ env.uid = <<" ", "-", "7">>
    /\ cfg.auth = 0 - 7
    /\ proc.logging

\* C17 as stated: every handled message, rejected, successful or failed,
\* has been sent exactly one reply when its handler ends.
C17_ExactlyOneReply ==
    (pc = "done" /\ msg.kind # "none") => Len(replies) = 1

\* C17 amended: when a handler ends without an exception leaving it, the
\* /start command has been sent the welcome text alone, an unauthorized
\* text or photo the rejection alone, and an authorized text or photo two
\* replies: the acknowledgement, then either the reply built from the
\* outcome or the failure reply.  When an exception leaves the handler, at
\* most one reply has been sent.
C17_RepliesPerMessage ==
    (pc = "done" /\ msg.kind # "none") =>
        IF escaped THEN Len(replies) <= 1
        ELSE IF msg.kind = "start" THEN replies = <<Welcome>>
        ELSE IF msg.sender # cfg.auth THEN replies = <<Rejection>>
        ELSE /\ Len(replies) = 2
             /\ replies[1] = (IF msg.kind = "photo" THEN AckPhoto ELSE AckText)
             /\ replies[2] \in {reply_message,
                                IF msg.kind = "photo" THEN FailurePhoto ELSE FailureText}

C17_Witness ==
    /\ pc = "done"
    /\ ~escaped
    /\ msg.kind = "photo"
    /\ msg.sender = cfg.auth
    /\ replies = <<AckPhoto, FailurePhoto>>

\* C18 as stated: for every outcome the provider's accounting call gave a
\* count for, Structured, Unparsed, Blocked or ProviderError, the final
\* reply to an authorized sender contains that count.
C18_ReplyHasTokenCount ==
    (FinalReplySent /\ FromAuthorized /\ HaveResponse(resp))
        => Contains(Last(replies), <<"Estimated input tokens: ", ToString(resp.tokens)>>)

\* C18 amended: the final reply to an authorized sender ends with the line
\* "Estimated input tokens: " followed by the count of the accounting call
\* when the analyze function returned a parsed JSON object (which carries
\* the count under _token_count), and by "N/A" for every other outcome.
C18_TokenCountOnlyWhenParsed ==
    (FinalReplySent /\ FromAuthorized) =>
        EndsWith(Last(replies),
                 <<"\n", "Estimated input tokens: ",
                   IF HasCompletion(resp) /\ IsStructured(extracted_data)
                   THEN ToString(resp.tokens) ELSE "N/A">>)

C18_Witness ==
    /\ FinalReplySent
    /\ FromAuthorized
    /\ IsUnparsed(extracted_data)
    /\ resp.tokens = 258
    /\ EndsWith(Last(replies), <<"Estimated input tokens: ", "N/A">>)

----------------------------------------------------------------------------
(* The claim about the relay, checked under SpecAll *)

Count(q, x) == Cardinality({i \in DOMAIN q : q[i] = x})

\* C19: in a handler run send_to_gsheet is called at most once, and a call
\* of send_to_gsheet makes at most one HTTP POST whatever the webhook
\* answers; given a record that is no dict it returns False without a POST.
C19_RelayAtMostOnce ==
    /\ Count(log, "send_to_gsheet") <= 1
    /\ Count(log, "requests.post") <= 1
    /\ Len(posted) = Count(log, "requests.post")
    /\ (sent = "False" /\ Truthy(cfg.url) /\ resp.body.kind = "object")
          => Len(posted) = 1
    /\ (pc = "send_returned" /\ resp.body.kind # "object")
          => (sent = "False" /\ posted = <<>>)

C19_Witness ==
    /\ pc = "done"
    /\ FromAuthorized
    /\ ~http.exc
    /\ http.status = 500
    /\ sent = "False"
    /\ Len(posted) = 1
    /\ Count(log, "send_to_gsheet") = 1
    /\ Contains(Last(replies), NotSavedLine)

----------------------------------------------------------------------------
(* The claim about the relayed record, checked under Spec *)

\* C20: every record either handler POSTs to the webhook has a date key
\* whose value is not "Not visible": where the provider gave no date or the
\* sentinel, the body carries the current date, written into the record
\* before send_to_gsheet was called.
C20_RelayedRecordEnriched ==
    \A i \in DOMAIN posted :
        /\ "date" \in DOMAIN posted[i]
        /\ posted[i]["date"] # NotVisible
        /\ ("date" \notin DOMAIN resp.body.val \/ resp.body.val["date"] = NotVisible)
              => posted[i]["date"] = today
        /\ posted[i] = extracted_data

C20_Witness ==
    /\ pc = "done"
    /\ msg.kind = "photo"
    /\ posted # <<>>
    /\ "date" \in DOMAIN resp.body.val
    /\ resp.body.val["date"] = NotVisible
    /\ posted[1]["date"] = today

----------------------------------------------------------------------------
(* The claim about the order of the steps of handle_photo, checked under   *)
(* Spec                                                                    *)

\* the place of the first x in the log
Pos(x) == CHOOSE i \in DOMAIN log : log[i] = x /\ \A j \in 1..(i - 1) : log[j] # x

\* the place of the last x in the log
LastPos(x) == CHOOSE i \in DOMAIN log : log[i] = x /\ \A j \in (i + 1)..Len(log) : log[j] # x

\* C21: in handle_photo the provider is called only after the download into
\* the download directory has completed; send_to_gsheet, when called, is
\* called after the date step and before the final reply; and a downloaded
\* file is never deleted.
C21_PhotoOrdering ==
    msg.kind = "photo" =>
        /\ InLog("count_tokens")
              => /\ InLog("download_to_drive")
                 /\ Pos("download_to_drive") < Pos("count_tokens")
                 /\ dirExists
        /\ InLog("download_to_drive") => ImagePath \in files
        /\ InLog("send_to_gsheet")
              => /\ InLog("generate_content")
                 /\ Pos("generate_content") < Pos("send_to_gsheet")
                 /\ "date" \in DOMAIN extracted_data
                 /\ extracted_data["date"] # NotVisible
                 /\ posted = <<extracted_data>>
                 /\ Count(SubSeq(log, 1, Pos("send_to_gsheet")), "reply") = 1
                 /\ Len(replies) = 2 => Pos("send_to_gsheet") < LastPos("reply")

C21_Witness ==
    /\ pc = "done"
    /\ msg.kind = "photo"
    /\ FinalReplySent
    /\ ImagePath \in files
    /\ InLog("send_to_gsheet")
    /\ Pos("download_to_drive") < Pos("count_tokens")
    /\ Pos("send_to_gsheet") < LastPos("reply")

----------------------------------------------------------------------------
(* The claim about invocations in flight together, checked under SpecConc *)

CountIn(q, x) == Cardinality({i \in DOMAIN q : q[i] = x})

\* the invocation l has ended, no exception left it and its last reply did
\* not fault
EndedWell(l) ==
    /\ l.pc = "done"
    /\ ~l.escaped
    /\ l.reply_message # <<>> => l.replies[Len(l.replies)] = l.reply_message

\* the replies and the relayed record of the invocation l are those of its
\* message handled alone
OwnOutcome(l) ==
    EndedWell(l) =>
        LET a == HandleAlone(l.msg, cfg, l.resp, l.http, today) IN
        /\ l.replies = a.replies
        /\ l.posted = a.posted

\* C22: with two handler invocations interleaved at their awaits, the
\* download directory is created at most once (os.makedirs is called only in
\* the step that found the directory missing, so it never finds it there),
\* and the replies and the relayed record of each message are those of that
\* message handled alone: a function of its envelope, its provider response
\* and its relay result.
C22_InvocationsIndependent ==
    Concurrent =>
        /\ CountIn(log, "makedirs") + CountIn(other.log, "makedirs") <= 1
        /\ (CountIn(log, "makedirs") + CountIn(other.log, "makedirs") = 1) => dirExists
        /\ (CountIn(log, "get_file") + CountIn(other.log, "get_file") > 0) => dirExists
        /\ OwnOutcome(Locals)
        /\ OwnOutcome(other)

C22_Witness ==
    /\ Concurrent
    /\ EndedWell(Locals)
    /\ EndedWell(other)
    /\ msg.kind = "photo"
    /\ other.msg.kind = "photo"
    /\ msg.sender = cfg.auth
    /\ other.msg.sender = cfg.auth
    /\ CountIn(log, "makedirs") + CountIn(other.log, "makedirs") = 1
    /\ posted # <<>>
    /\ other.posted = <<>>
    /\ resp # other.resp
    /\ Len(replies) = 2
    /\ Len(other.replies) = 2

----------------------------------------------------------------------------
(* The claim about the handlers' last branch, checked under SpecAll *)

\* C23: every value an analyze function returns is a non-empty dict, so a
\* handler that got a return value takes the error, the raw-text or the
\* structured branch and never replies "No data was extracted ...".
C23_NoDataUnreachable ==
    /\ (pc \in {"image_returned", "text_returned"} /\ ~escaped)
          => extracted_data # EmptyDict
    /\ pc = "render"
          => /\ extracted_data # EmptyDict
             /\ Branch(extracted_data) \in {"error", "raw_text", "structured"}
    /\ ~StartsWith(reply_message, NoDataPhoto)
    /\ ~StartsWith(reply_message, NoDataText)
    /\ \A i \in DOMAIN replies :
          ~Contains(replies[i], NoDataPhoto) /\ ~Contains(replies[i], NoDataText)

C23_Witness ==
    /\ pc = "render"
    /\ resp.body = ObjectBody(EmptyDict)
    /\ DOMAIN extracted_data = {"_token_count"}
    /\ Branch(extracted_data) = "structured"

----------------------------------------------------------------------------
(* The claim about the order of the provider calls, checked under          *)
(* SpecDirect                                                              *)

\* C24: in both analyze functions count_tokens is called, once, before
\* generate_content, which is called at most once; when count_tokens faults,
\* generate_content is not called and the function returns an error record.
C24_CountBeforeGenerate ==
    Returned_ =>
        /\ Count(log, "count_tokens") <= 1
        /\ Count(log, "generate_content") <= 1
        /\ InLog("generate_content")
              => (InLog("count_tokens") /\ Pos("count_tokens") < Pos("generate_content"))
        /\ (resp.image = "ok" /\ resp.countFault)
              => /\ log = <<"count_tokens">>
                 /\ ~escaped
                 /\ extracted_data = ErrorDict(<<"count_tokens failed">>)
        /\ (resp.image = "ok" /\ ~resp.countFault)
              => log = <<"count_tokens", "generate_content">>

C24_Witness ==
    /\ pc = "text_returned"
    /\ resp.countFault
    /\ log = <<"count_tokens">>
    /\ DOMAIN extracted_data = {"error"}

----------------------------------------------------------------------------
(* The claim about the two layouts, checked under SpecAll *)

IsProviderCall(x) == x \in {"count_tokens", "generate_content"}

\* C25: app.py and the modules telegram_handlers.py, gemini_service.py and
\* gsheet_service.py behave alike: for every sender, message, provider
\* response and webhook response, the functions of the modules return what
\* those of app.py return, and the handlers of the modules send the replies,
\* make the provider calls and relay the record that those of app.py do.
C25_LayoutsEquivalent ==
    /\ pc = "image_returned"
          => LET o == app_analyze_tensimeter_image(ImagePath, resp) IN
             /\ escaped = o.raised
             /\ extracted_data = o.data
             /\ log = o.calls
    /\ pc = "text_returned"
          => LET o == app_analyze_text_with_gemini(resp) IN
             /\ escaped = o.raised
             /\ extracted_data = o.data
             /\ log = o.calls
    /\ pc = "send_returned"
          => LET g == app_send_to_gsheet(resp.body, cfg.url, http) IN
             /\ sent = (IF g.ret THEN "True" ELSE "False")
             /\ posted = g.posts
    /\ (msg.kind # "none" /\ EndedWell(Locals))
          => LET a == app_handle(msg, cfg, resp, http, today) IN
             /\ replies = a.replies
             /\ SelectSeq(log, IsProviderCall) = a.calls
             /\ posted = a.posted

C25_Witness ==
    /\ msg.kind = "photo"
    /\ EndedWell(Locals)
    /\ FromAuthorized
    /\ resp.text = <<Fence, WS, BodyTok, WS, Fence>>
    /\ resp.body.kind = "object"
    /\ IsUnparsed(extracted_data)
    /\ replies = app_handle(msg, cfg, resp, http, today).replies

====
